---- MODULE Spec2Model ----
(***************************************************************************)
(* Model of scripts/candidate_selection.py (SmartBuzz): the candidate-lot   *)
(* selection pipeline load -> validate -> area -> land use -> distance ->   *)
(* write, run as a script (pandas is bound to pd by the __main__ block).    *)
(*                                                                          *)
(* A geometry is abstracted to what the pipeline reads of it: its type,     *)
(* emptiness, validity, the ground area it covers (square metres), its      *)
(* position on a line (metres) and the coordinate system its stored         *)
(* coordinates are really in (srs).  The numbers geopandas computes (area,  *)
(* distance) are derived from the ground truth AND the coordinate system,   *)
(* so a reprojection changes them.  Text is a tuple of one-character        *)
(* strings, so that str.upper() is computed character by character.         *)
(***************************************************************************)
EXTENDS Integers, Sequences, FiniteSets, TLC

VARIABLES pc, suffolk, nassau, stations_fp, allowed, parcels, hist, out, status

vars == <<pc, suffolk, nassau, stations_fp, allowed, parcels, hist, out, status>>

----------------------------------------------------------------------------
(* Bounds of the model *)

MaxParcels == 2
MaxStations == 2
MaxRows == 2

----------------------------------------------------------------------------
(* Text *)

LowerCase == <<"a","b","c","d","e","f","g","h","i","j","k","l","m",
               "n","o","p","q","r","s","t","u","v","w","x","y","z">>
UpperCase == <<"A","B","C","D","E","F","G","H","I","J","K","L","M",
               "N","O","P","Q","R","S","T","U","V","W","X","Y","Z">>

UpperChar(c) ==
    IF \E i \in DOMAIN LowerCase : LowerCase[i] = c
    THEN UpperCase[CHOOSE i \in DOMAIN LowerCase : LowerCase[i] = c]
    ELSE c

\* str.upper()
Upper(s) == [i \in DOMAIN s |-> UpperChar(s[i])]

\* The codes compared as written, with no conversion
Upper_missing(s) == s

\* Series.str.upper() as landuse_filter applies it to the land-use codes
CodeUpper(s) == Upper(s)

\* Thresholds and the allow-set, as the module sets them
MIN_AREA_SQFT == 30000
MIN_DISTANCE_M == 800
LANDUSE_ALLOWED ==
    { <<"C","O","M">>, <<"C">>, <<"C","O","M","M">>,
      <<"1","0">>, <<"1","1">>, <<"1","2">>, <<"1","3">> }

\* The column names landuse_filter accepts, upper-cased
LANDUSE_ALIASES ==
    { <<"L","A","N","D","U","S","E">>, <<"L","U">>,
      <<"L","U","_","D","E","S","C">>,
      <<"P","R","O","P","_","C","L","A","S","S">>,
      <<"P","R","O","P","C","L">> }

COL_GEOMETRY == <<"g","e","o","m","e","t","r","y">>
COL_AREA == <<"a","r","e","a","_","s","q","f","t">>
COL_DIST == <<"d","i","s","t","_","m">>
COL_INDEX_RIGHT == <<"i","n","d","e","x","_","r","i","g","h","t">>
COL_LandUse == <<"L","a","n","d","U","s","e">>
COL_prop_class == <<"p","r","o","p","_","c","l","a","s","s">>
COL_ZONING == <<"Z","O","N","I","N","G">>

\* str(NaN): what astype(str) gives for a value missing after a schema union
STR_NAN == <<"n","a","n">>

----------------------------------------------------------------------------
(* Coordinate reference systems *)

NoCRS == "None"
RAW == "raw"            \* coordinates that are in no known system
EPSG_4326 == "EPSG:4326"    \* WGS 84, geographic, degrees
EPSG_6539 == "EPSG:6539"    \* NAD83(2011) / New York Long Island (ftUS)
EPSG_26918 == "EPSG:26918"  \* NAD83 / UTM zone 18N, metres
EPSG_32618 == "EPSG:32618"  \* WGS 84 / UTM zone 18N, metres

Units(crs) ==
    CASE crs = EPSG_4326 -> "degree"
      [] crs = EPSG_6539 -> "ftUS"
      [] crs = EPSG_26918 -> "metre"
      [] crs = EPSG_32618 -> "metre"
      [] OTHER -> "unknown"

\* pyproj CRS.is_geographic
is_geographic(crs) == Units(crs) = "degree"

\* Not-a-number: the distance of a left row that found no right row
NaN == -1

\* 1 m2 = 10.764 ft2 and 1 m = 3.281 ft (US survey), in thousandths
SQFT_PER_SQM_MILLI == 10764
FT_PER_M_MILLI == 3281

----------------------------------------------------------------------------
(* Geometries *)

NullGeom == [gtype |-> "Null", empty |-> FALSE, valid |-> FALSE,
             ground |-> 0, x |-> 0, srs |-> RAW]

\* GeoSeries.area: the planar area of the stored coordinates, in the square
\* of their unit.  A parcel measured in square degrees is far below 1.
Area(g) ==
    IF g.gtype = "Null" \/ g.empty THEN 0
    ELSE CASE Units(g.srs) = "ftUS" -> (g.ground * SQFT_PER_SQM_MILLI) \div 1000
           [] Units(g.srs) = "metre" -> g.ground
           [] Units(g.srs) = "degree" -> 0
           [] OTHER -> g.ground

Abs(n) == IF n < 0 THEN 0 - n ELSE n

\* Planar distance between two geometries in the unit of their coordinates
Distance(g, h) ==
    CASE Units(g.srs) = "ftUS" -> (Abs(g.x - h.x) * FT_PER_M_MILLI) \div 1000
      [] Units(g.srs) = "metre" -> Abs(g.x - h.x)
      [] Units(g.srs) = "degree" -> 0
      [] OTHER -> Abs(g.x - h.x)

\* shapely buffer(0) of an invalid polygon: the result is valid and
\* polygonal; a ring that encloses no area collapses to POLYGON EMPTY, a
\* self-crossing ring splits into the parts of a MultiPolygon.
Buffer0(g) ==
    IF g.ground = 0
    THEN [g EXCEPT !.gtype = "Polygon", !.empty = TRUE, !.valid = TRUE]
    ELSE [g EXCEPT !.gtype = "MultiPolygon", !.valid = TRUE]

\* pyproj transform of one geometry from the system the collection is
\* tagged with to the target: meaningful only if the coordinates really are
\* in the tagged system.
Reproject(g, from, to) ==
    IF g.gtype = "Null" THEN g
    ELSE IF g.srs = from THEN [g EXCEPT !.srs = to]
    ELSE [g EXCEPT !.srs = RAW]

----------------------------------------------------------------------------
(* Collections (GeoDataFrames) and results of calls that may raise *)

EmptyColl == [crs |-> NoCRS, cols |-> <<>>, rows |-> <<>>]

Ok(v) == [raised |-> FALSE, val |-> v]
Raise(e) == [raised |-> TRUE, val |-> e]

Map(f(_), s) == [i \in DOMAIN s |-> f(s[i])]

Ids(rows) == { rows[i].id : i \in DOMAIN rows }

\* GeoDataFrame.to_crs: raises on a collection with no CRS
to_crs(gdf, target) ==
    IF gdf.crs = NoCRS
    THEN Raise("ValueError: Cannot transform naive geometries")
    ELSE LET conv(r) == [r EXCEPT !.geom = Reproject(r.geom, gdf.crs, target)]
         IN Ok([gdf EXCEPT !.crs = target, !.rows = Map(conv, gdf.rows)])

----------------------------------------------------------------------------
(* The functions of candidate_selection.py *)

\* pandas.concat(gdfs, ignore_index=True) on GeoDataFrames: the columns are
\* the union in order of appearance, a value missing from a frame is NaN,
\* the rows are renumbered, and frames whose defined CRSs differ are refused
\* with a ValueError (by the concatenation of the geometry arrays, or by the
\* GeoDataFrame constructor of line 41 when it is handed another CRS than
\* the data's); frames without a CRS take the CRS of the others.
ConcatCols(a, b) ==
    a \o SelectSeq(b, LAMBDA c : \A i \in DOMAIN a : a[i] # c)

WidenRow(r, cols) ==
    [r EXCEPT !.attrs =
        [c \in { cols[i] : i \in DOMAIN cols } \ {COL_GEOMETRY} |->
            IF c \in DOMAIN r.attrs THEN r.attrs[c] ELSE STR_NAN]]

Renumber(rows) == [i \in DOMAIN rows |-> [rows[i] EXCEPT !.id = i]]

RECURSIVE ConcatFrames(_)
ConcatFrames(gdfs) ==
    IF Len(gdfs) = 1 THEN gdfs[1]
    ELSE LET rest == ConcatFrames(Tail(gdfs))
             cols == ConcatCols(gdfs[1].cols, rest.cols)
         IN [crs |-> IF gdfs[1].crs # NoCRS THEN gdfs[1].crs ELSE rest.crs,
             cols |-> cols,
             rows |-> Map(LAMBDA r : WidenRow(r, cols), gdfs[1].rows \o rest.rows)]

pd_concat(gdfs) ==
    LET defined == { gdfs[i].crs : i \in DOMAIN gdfs } \ {NoCRS}
    IN IF Cardinality(defined) > 1
       THEN Raise("ValueError: Cannot determine common CRS")
       ELSE LET c == ConcatFrames(gdfs)
            IN Ok([c EXCEPT !.rows = Renumber(c.rows)])

\* load_parcels with the not-found check lost: an empty collection comes back
load_parcels_noraise ==
    LET gdfs == Map(LAMBDA f : f.gdf,
                    SelectSeq(<<suffolk, nassau>>, LAMBDA f : f.exists))
    IN IF gdfs = <<>> THEN Ok(EmptyColl)
       ELSE LET c == pd_concat(gdfs)
            IN IF c.raised THEN c
               ELSE Ok([c.val EXCEPT !.crs =
                          IF gdfs[1].crs = NoCRS THEN c.val.crs ELSE gdfs[1].crs])

load_parcels ==
    LET gdfs == Map(LAMBDA f : f.gdf,
                    SelectSeq(<<suffolk, nassau>>, LAMBDA f : f.exists))
    IN IF gdfs = <<>>
       THEN Raise("FileNotFoundError: No parcel datasets found")
       ELSE LET c == pd_concat(gdfs)
            IN IF c.raised THEN c
               ELSE Ok([c.val EXCEPT !.crs =
                          IF gdfs[1].crs = NoCRS THEN c.val.crs ELSE gdfs[1].crs])

IsPolygonal(g) == g.gtype \in {"Polygon", "MultiPolygon"}

\* The three row filters and the buffer(0) repair of validate_parcels
CleanRows(rows) ==
    LET r1 == SelectSeq(rows, LAMBDA r : r.geom.gtype # "Null")
        r2 == SelectSeq(r1, LAMBDA r : ~r.geom.empty)
        r3 == SelectSeq(r2, LAMBDA r : IsPolygonal(r.geom))
    IN IF \E i \in DOMAIN r3 : ~r3[i].geom.valid
       THEN Map(LAMBDA r : IF r.geom.valid THEN r
                           ELSE [r EXCEPT !.geom = Buffer0(r.geom)], r3)
       ELSE r3

\* validate_parcels reprojecting whatever the CRS is
validate_parcels_always(gdf) ==
    to_crs([gdf EXCEPT !.rows = CleanRows(gdf.rows)], EPSG_6539)

validate_parcels(gdf) ==
    LET g == [gdf EXCEPT !.rows = CleanRows(gdf.rows)]
    IN IF g.crs = NoCRS \/ is_geographic(g.crs)
       THEN to_crs(g, EPSG_6539)
       ELSE Ok(g)

add_area(gdf) ==
    [gdf EXCEPT !.cols = ConcatCols(gdf.cols, <<COL_AREA>>),
                !.rows = Map(LAMBDA r : [r EXCEPT !.area_sqft = Area(r.geom)],
                             gdf.rows)]

\* main's area filter
area_filter(gdf) ==
    [gdf EXCEPT !.rows = SelectSeq(gdf.rows,
                                   LAMBDA r : r.area_sqft >= MIN_AREA_SQFT)]

\* The first column whose upper-cased name is an accepted alias, or <<>>
lu_col(gdf) ==
    LET hits == SelectSeq(gdf.cols, LAMBDA c : Upper(c) \in LANDUSE_ALIASES)
    IN IF hits = <<>> THEN <<>> ELSE hits[1]

\* A code is held as the text astype(str) gives for it ("10" for 10, "nan"
\* for a missing value), so only the upper-casing remains to be computed.
landuse_filter(gdf) ==
    LET col == lu_col(gdf)
    IN IF col = <<>> THEN gdf
       ELSE [gdf EXCEPT !.rows =
               SelectSeq(gdf.rows,
                         LAMBDA r : CodeUpper(r.attrs[col]) \in allowed)]

Min(S) == CHOOSE m \in S : \A n \in S : m <= n

\* The rows sjoin_nearest(how="left") gives for one left row: one per right
\* row at the least distance, or a single row with NaN when there is no
\* right row at all.
NearestOf(l, rrows) ==
    IF rrows = <<>>
    THEN << [l EXCEPT !.dist_m = NaN, !.index_right = NaN] >>
    ELSE LET d(i) == Distance(l.geom, rrows[i].geom)
             dmin == Min({ d(i) : i \in DOMAIN rrows })
             near == SelectSeq([i \in DOMAIN rrows |-> i], LAMBDA i : d(i) = dmin)
         IN [k \in DOMAIN near |->
               [l EXCEPT !.dist_m = dmin, !.index_right = rrows[near[k]].id]]

RECURSIVE NearestRows(_, _)
NearestRows(lrows, rrows) ==
    IF lrows = <<>> THEN <<>>
    ELSE NearestOf(Head(lrows), rrows) \o NearestRows(Tail(lrows), rrows)

sjoin_nearest(left, right) ==
    [left EXCEPT !.cols = ConcatCols(left.cols, <<COL_INDEX_RIGHT, COL_DIST>>),
                 !.rows = NearestRows(left.rows, right.rows)]

\* joined["dist_m"] >= MIN_DISTANCE_M: a comparison with NaN is False
FarEnough(r) == r.dist_m # NaN /\ r.dist_m >= MIN_DISTANCE_M

distance_filter(parcels_, stations) ==
    LET parcels_m == to_crs(parcels_, EPSG_32618)
        stations_m == to_crs(stations, EPSG_32618)
    IN IF parcels_m.raised THEN parcels_m
       ELSE IF stations_m.raised THEN stations_m
       ELSE LET joined == sjoin_nearest(parcels_m.val, stations_m.val)
                filtered == [joined EXCEPT !.rows = SelectSeq(joined.rows, FarEnough)]
            IN to_crs(filtered, parcels_.crs)

----------------------------------------------------------------------------
(* The inputs a run may find on disk *)

Absent == [exists |-> FALSE, gdf |-> EmptyColl]

SeqsUpTo(S, n) == UNION { [1..k -> S] : k \in 0..n }

RECURSIVE Sorted(_)
Sorted(S) == IF S = {} THEN <<>> ELSE <<Min(S)>> \o Sorted(S \ {Min(S)})

Poly(ground, x) == [gtype |-> "Polygon", empty |-> FALSE, valid |-> TRUE,
                    ground |-> ground, x |-> x, srs |-> RAW]

\* A self-crossing ring that encloses area, and a ring collapsed onto a line
Bowtie(ground, x) == [Poly(ground, x) EXCEPT !.valid = FALSE]
Collapsed(x) == [Poly(0, x) EXCEPT !.valid = FALSE]

CODE_COM == <<"C","O","M">>
CODE_com == <<"c","o","m">>
CODE_RES == <<"R","E","S">>
CODE_10 == <<"1","0">>

\* Parcels of the end-to-end scenarios (35,000 / 10,000 / 40,000 ft2 are
\* 3252 / 929 / 3716 m2), one parcel of 30,000 m2, and defective records
ParcelTemplates ==
    { [geom |-> Poly(3252, 1000), code |-> CODE_COM],
      [geom |-> Poly(929, 2000), code |-> CODE_COM],
      [geom |-> Poly(3716, 2000), code |-> CODE_RES],
      [geom |-> Poly(30000, 500), code |-> CODE_10],
      [geom |-> Collapsed(1000), code |-> CODE_COM],
      [geom |-> NullGeom, code |-> CODE_COM] }

FileCRS == {NoCRS, EPSG_4326, EPSG_26918, EPSG_6539}
StationCRS == {NoCRS, EPSG_4326}
StationSites == {0, 2000}

ColumnLayouts == { <<COL_GEOMETRY>>, <<COL_LandUse, COL_GEOMETRY>> }

\* What gpd.read_file gives for a file: the coordinates are in the file's
\* CRS, or in no known system when the file names none
Stored(g, crs) ==
    IF g.gtype = "Null" THEN g
    ELSE [g EXCEPT !.srs = IF crs = NoCRS THEN RAW ELSE crs]

MkRow(i, g, attrs) ==
    [id |-> i, geom |-> g, attrs |-> attrs,
     area_sqft |-> NaN, dist_m |-> NaN, index_right |-> NaN]

ParcelFile(crs, cols, tpls) ==
    [exists |-> TRUE,
     gdf |-> [crs |-> crs, cols |-> cols,
              rows |-> [i \in DOMAIN tpls |->
                          MkRow(i, Stored(tpls[i].geom, crs),
                                [c \in { cols[k] : k \in DOMAIN cols } \ {COL_GEOMETRY}
                                   |-> tpls[i].code])]]]

ParcelFiles(cols, n) ==
    {Absent} \cup { ParcelFile(crs, cols, tpls) :
                      crs \in FileCRS, tpls \in SeqsUpTo(ParcelTemplates, n) }

Point(x, crs) == [gtype |-> "Point", empty |-> FALSE, valid |-> TRUE,
                  ground |-> 0, x |-> x, srs |-> IF crs = NoCRS THEN RAW ELSE crs]

StationFile(crs, sites) ==
    [exists |-> TRUE,
     gdf |-> [crs |-> crs, cols |-> <<COL_GEOMETRY>>,
              rows |-> [i \in DOMAIN sites |->
                          [id |-> i, geom |-> Point(sites[i], crs)]]]]

StationFiles ==
    {Absent} \cup { StationFile(crs, Sorted(S)) :
                      crs \in StationCRS,
                      S \in { T \in SUBSET StationSites : Cardinality(T) <= MaxStations } }

NoHist == [loaded |-> EmptyColl, validated |-> EmptyColl, area |-> EmptyColl,
           big |-> EmptyColl, lu |-> EmptyColl,
           v_in |-> EmptyColl, v_once |-> EmptyColl, lu_in |-> EmptyColl]

----------------------------------------------------------------------------
(* main *)

\* A run starts with whatever is on disk: each parcel file absent or read
\* with some CRS, both files with the same columns, the station file absent
\* or read with some CRS, and no output written yet.
Init ==
    /\ pc = "Idle"
    /\ \E cols \in ColumnLayouts :
         /\ suffolk \in ParcelFiles(cols, MaxParcels)
         /\ nassau \in ParcelFiles(cols, MaxParcels - Len(suffolk.gdf.rows))
    /\ stations_fp \in StationFiles
    /\ allowed = LANDUSE_ALLOWED
    /\ parcels = EmptyColl
    /\ hist = NoHist
    /\ out = Absent
    /\ status = "running"

\* An exception main does not catch ends the process with status 1; so does
\* the sys.exit(1) of the handler around load_parcels.
Abort ==
    /\ pc' = "Aborted"
    /\ status' = "exit 1"
    /\ UNCHANGED <<suffolk, nassau, stations_fp, allowed, parcels, hist, out>>

Step(next, gdf, field) ==
    /\ pc' = next
    /\ parcels' = gdf
    /\ hist' = [hist EXCEPT ![field] = gdf]
    /\ UNCHANGED <<suffolk, nassau, stations_fp, allowed, out, status>>

LoadOk ==
    /\ pc = "Idle"
    /\ ~load_parcels.raised
    /\ Step("Loaded", load_parcels.val, "loaded")

LoadFail ==
    /\ pc = "Idle"
    /\ load_parcels.raised
    /\ Abort

ValidateOk ==
    /\ pc = "Loaded"
    /\ ~validate_parcels(parcels).raised
    /\ Step("Validated", validate_parcels(parcels).val, "validated")

ValidateRaise ==
    /\ pc = "Loaded"
    /\ validate_parcels(parcels).raised
    /\ Abort

AddArea ==
    /\ pc = "Validated"
    /\ Step("AreaAdded", add_area(parcels), "area")

AreaFilter ==
    /\ pc = "AreaAdded"
    /\ Step("AreaFiltered", area_filter(parcels), "big")

LandUseFilter ==
    /\ pc = "AreaFiltered"
    /\ Step("LandUseFiltered", landuse_filter(parcels), "lu")

\* The station layer is missing and the lost-collection slip: final is empty
SkipDistance_drop ==
    /\ pc = "LandUseFiltered"
    /\ ~stations_fp.exists
    /\ pc' = "SkippedDistance"
    /\ parcels' = [parcels EXCEPT !.rows = <<>>]
    /\ UNCHANGED <<suffolk, nassau, stations_fp, allowed, hist, out, status>>

SkipDistance ==
    /\ pc = "LandUseFiltered"
    /\ ~stations_fp.exists
    /\ pc' = "SkippedDistance"
    /\ UNCHANGED <<suffolk, nassau, stations_fp, allowed, parcels, hist, out, status>>

DistanceOk ==
    /\ pc = "LandUseFiltered"
    /\ stations_fp.exists
    /\ ~distance_filter(parcels, stations_fp.gdf).raised
    /\ pc' = "DistanceFiltered"
    /\ parcels' = distance_filter(parcels, stations_fp.gdf).val
    /\ UNCHANGED <<suffolk, nassau, stations_fp, allowed, hist, out, status>>

DistanceRaise ==
    /\ pc = "LandUseFiltered"
    /\ stations_fp.exists
    /\ distance_filter(parcels, stations_fp.gdf).raised
    /\ Abort

\* final.to_file(out_fp), taken to succeed on every collection, after which
\* main returns and the script ends with status 0
Write ==
    /\ pc \in {"SkippedDistance", "DistanceFiltered"}
    /\ pc' = "Written"
    /\ out' = [exists |-> TRUE, gdf |-> parcels]
    /\ status' = "exit 0"
    /\ UNCHANGED <<suffolk, nassau, stations_fp, allowed, parcels, hist>>

Next ==
    \/ LoadOk \/ LoadFail
    \/ ValidateOk \/ ValidateRaise
    \/ AddArea \/ AreaFilter \/ LandUseFilter
    \/ SkipDistance \/ DistanceOk \/ DistanceRaise
    \/ Write

Spec == Init /\ [][Next]_vars

----------------------------------------------------------------------------
(* validate_parcels on its own, applied once and then to its own result *)

GeomCatalog ==
    { Poly(3252, 1000),
      [Poly(3716, 2000) EXCEPT !.gtype = "MultiPolygon"],
      Bowtie(3716, 1000),
      Collapsed(1000),
      NullGeom,
      [Poly(0, 0) EXCEPT !.empty = TRUE],
      Point(0, NoCRS),
      [Point(0, NoCRS) EXCEPT !.gtype = "LineString"] }

ValidateInputs ==
    { [crs |-> crs, cols |-> <<COL_GEOMETRY>>,
       rows |-> [i \in DOMAIN gs |-> MkRow(i, Stored(gs[i], crs), <<>>)]] :
        crs \in FileCRS, gs \in SeqsUpTo(GeomCatalog, MaxRows) }

InitValidate ==
    /\ pc = "v:start"
    /\ parcels \in ValidateInputs
    /\ suffolk = Absent /\ nassau = Absent /\ stations_fp = Absent
    /\ allowed = LANDUSE_ALLOWED
    /\ hist = NoHist
    /\ out = Absent
    /\ status = "running"

ValidateOnce ==
    /\ pc = "v:start"
    /\ LET r == validate_parcels(parcels)
       IN /\ pc' = IF r.raised THEN "v:raised" ELSE "v:once"
          /\ parcels' = IF r.raised THEN parcels ELSE r.val
          /\ hist' = [hist EXCEPT !.v_in = parcels,
                                  !.v_once = IF r.raised THEN EmptyColl ELSE r.val]
    /\ UNCHANGED <<suffolk, nassau, stations_fp, allowed, out, status>>

ValidateTwice ==
    /\ pc = "v:once"
    /\ LET r == validate_parcels(parcels)
       IN /\ pc' = IF r.raised THEN "v:raised" ELSE "v:twice"
          /\ parcels' = IF r.raised THEN parcels ELSE r.val
    /\ UNCHANGED <<suffolk, nassau, stations_fp, allowed, hist, out, status>>

NextValidate == ValidateOnce \/ ValidateTwice

SpecValidate == InitValidate /\ [][NextValidate]_vars

----------------------------------------------------------------------------
(* landuse_filter on its own, under each configured allow-set *)

Codes == {CODE_COM, CODE_com, CODE_RES, CODE_10}

LanduseLayouts ==
    { <<COL_GEOMETRY>>,
      <<COL_LandUse, COL_GEOMETRY>>,
      <<COL_ZONING, COL_GEOMETRY>>,
      <<COL_ZONING, COL_prop_class, COL_GEOMETRY>> }

\* The default allow-set, one written in lower case, and one of another class
AllowSets ==
    { LANDUSE_ALLOWED,
      { CODE_com, <<"r","e","t","a","i","l">> },
      { CODE_RES } }

AttrCols(cols) == { cols[k] : k \in DOMAIN cols } \ {COL_GEOMETRY}

LanduseInputs ==
    UNION { { [crs |-> EPSG_6539, cols |-> cols,
               rows |-> [i \in DOMAIN as |->
                           MkRow(i, Stored(Poly(3716, 1000), EPSG_6539), as[i])]] :
                as \in SeqsUpTo([AttrCols(cols) -> Codes], MaxRows) } :
            cols \in LanduseLayouts }

InitLanduse ==
    /\ pc = "lu:start"
    /\ parcels \in LanduseInputs
    /\ allowed \in AllowSets
    /\ suffolk = Absent /\ nassau = Absent /\ stations_fp = Absent
    /\ hist = NoHist
    /\ out = Absent
    /\ status = "running"

LanduseCall ==
    /\ pc = "lu:start"
    /\ pc' = "lu:done"
    /\ parcels' = landuse_filter(parcels)
    /\ hist' = [hist EXCEPT !.lu_in = parcels]
    /\ UNCHANGED <<suffolk, nassau, stations_fp, allowed, out, status>>

NextLanduse == LanduseCall

SpecLanduse == InitLanduse /\ [][NextLanduse]_vars

----------------------------------------------------------------------------
(* Properties *)

Rows(gdf) == { gdf.rows[i] : i \in DOMAIN gdf.rows }

NoDuplicateIds(rows) ==
    \A i, j \in DOMAIN rows : rows[i].id = rows[j].id => i = j

\* The distance on the ground between a parcel and a station, in metres,
\* taken from the positions themselves and not from the stored coordinates
TrueDistance(p, s) == Abs(p.geom.x - s.geom.x)

ParcelSourceExists == suffolk.exists \/ nassau.exists

\* C1: distance_filter keeps a parcel of its input if and only if no station
\* is nearer to it than MIN_DISTANCE_M, for every station collection
\* (stated on the collection main hands to distance_filter and the one it
\* gets back).
C1_DistancePartition ==
    pc = "DistanceFiltered" =>
        \A p \in Rows(hist.lu) :
            (p.id \in Ids(parcels.rows)) <=>
                (\A s \in Rows(stations_fp.gdf) :
                    TrueDistance(p, s) >= MIN_DISTANCE_M)

\* C2: what validate_parcels returns holds no null, empty or non-polygonal
\* geometry and only valid ones, repaired records included.
C2_ValidatedGeometries ==
    pc = "v:once" =>
        \A r \in Rows(parcels) :
            /\ r.geom.gtype # "Null"
            /\ ~r.geom.empty
            /\ IsPolygonal(r.geom)
            /\ r.geom.valid

\* C3: when add_area has computed area_sqft, every record's coordinates are
\* in the collection's CRS, and that CRS is planar and measured in feet.
C3_AreaOnFeetCRS ==
    pc = "AreaAdded" =>
        \A r \in Rows(parcels) :
            /\ r.geom.srs = parcels.crs
            /\ Units(r.geom.srs) = "ftUS"

\* C4: with no parcel source file, main exits with status 1 from the load
\* step: no later stage runs and candidate_lots.gpkg is not written.
C4_NoSourceAborts ==
    ~ParcelSourceExists =>
        /\ pc \in {"Idle", "Aborted"}
        /\ pc = "Idle" => ENABLED LoadFail /\ ~ENABLED LoadOk
        /\ pc = "Aborted" => status = "exit 1"
        /\ hist = NoHist
        /\ out = Absent

C4_Witness ==
    ~ParcelSourceExists /\ pc = "Aborted" /\ status = "exit 1"

\* C5: a run that finds at least one parcel source file never aborts.
C5_OnlyFatalAborts ==
    ParcelSourceExists => pc # "Aborted" /\ status # "exit 1"

HasLanduseColumn(gdf) ==
    \E i \in DOMAIN gdf.cols : Upper(gdf.cols[i]) \in LANDUSE_ALIASES

\* The value a row holds in the first column named by an accepted alias
LanduseCode(gdf, r) ==
    r.attrs[gdf.cols[Min({ i \in DOMAIN gdf.cols :
                             Upper(gdf.cols[i]) \in LANDUSE_ALIASES })]]

IsSubSeq(small, big) ==
    small = SelectSeq(big, LAMBDA r : r \in Rows([rows |-> small]))

\* C6 as claimed: with a land-use column, a parcel is kept if and only if
\* its code equals a member of the allow-set up to letter case, whatever the
\* allow-set; without one, the output is the input.
C6_CaseInsensitiveMembership ==
    pc = "lu:done" =>
        IF HasLanduseColumn(hist.lu_in)
        THEN \A r \in Rows(hist.lu_in) :
                (r \in Rows(parcels)) <=>
                    (\E a \in allowed : Upper(a) = Upper(LanduseCode(hist.lu_in, r)))
        ELSE parcels = hist.lu_in

\* C6 as amended: with a land-use column, a parcel is kept if and only if
\* its code, upper-cased, is itself a member of the allow-set (whose
\* entries are compared as written); the kept records are the input's, in
\* order; without a land-use column the output is the input.
C6_UppercasedMembership ==
    pc = "lu:done" =>
        IF HasLanduseColumn(hist.lu_in)
        THEN /\ \A r \in Rows(hist.lu_in) :
                   (r \in Rows(parcels)) <=>
                       (Upper(LanduseCode(hist.lu_in, r)) \in allowed)
             /\ IsSubSeq(parcels.rows, hist.lu_in.rows)
             /\ parcels.crs = hist.lu_in.crs /\ parcels.cols = hist.lu_in.cols
        ELSE parcels = hist.lu_in

C6_Witness ==
    /\ pc = "lu:done"
    /\ HasLanduseColumn(hist.lu_in)
    /\ Len(parcels.rows) < Len(hist.lu_in.rows)
    /\ \E r \in Rows(parcels) : LanduseCode(hist.lu_in, r) = CODE_com

\* C7: when the station file is absent and main has reached the station
\* check, the distance filter is skipped without error, the collection
\* written is the one the land-use filter returned, and the exit status
\* is 0.
C7_StationsAbsentSkips ==
    ~stations_fp.exists =>
        /\ pc = "LandUseFiltered" =>
              ENABLED SkipDistance /\ ~ENABLED DistanceOk /\ ~ENABLED DistanceRaise
        /\ pc = "SkippedDistance" => parcels = hist.lu /\ ENABLED Write
        /\ pc = "Written" =>
              out = [exists |-> TRUE, gdf |-> hist.lu] /\ status = "exit 0"
        /\ pc # "DistanceFiltered"

C7_Witness ==
    /\ ~stations_fp.exists
    /\ pc = "Written"
    /\ status = "exit 0"
    /\ out.gdf.rows # <<>>
    /\ Len(out.gdf.rows) < Len(hist.loaded.rows)

\* C8: when the station file exists but holds no station, every parcel that
\* survived the area and land-use filters is written.
C8_EmptyStationsBypass ==
    (stations_fp.exists /\ stations_fp.gdf.rows = <<>> /\ pc = "Written") =>
        Ids(out.gdf.rows) = Ids(hist.lu.rows)

Clean(gdf) ==
    \A r \in Rows(gdf) :
        /\ r.geom.gtype # "Null"
        /\ ~r.geom.empty
        /\ IsPolygonal(r.geom)
        /\ r.geom.valid

\* C9 as claimed: validate_parcels returns an already clean collection
\* unchanged (records, geometries, CRS), and so does a second application.
C9_ValidatorNoOp ==
    (pc \in {"v:once", "v:twice"} /\ Clean(hist.v_in)) =>
        /\ hist.v_once = hist.v_in
        /\ pc = "v:twice" => parcels = hist.v_once

\* C9 as amended: on an already clean collection validate_parcels returns
\* its input unchanged when the CRS is a projected one; when the CRS is
\* geographic it returns the same records in the same order reprojected to
\* EPSG:6539; when the CRS is undefined it raises; and whenever the first
\* application returns, a second application returns the same collection.
C9_ValidatorNoOpWhenProjected ==
    Clean(hist.v_in) =>
        /\ pc \in {"v:once", "v:twice"} =>
              /\ hist.v_in.crs # NoCRS
              /\ ~is_geographic(hist.v_in.crs) => hist.v_once = hist.v_in
              /\ is_geographic(hist.v_in.crs) =>
                    /\ hist.v_once.crs = EPSG_6539
                    /\ hist.v_once.cols = hist.v_in.cols
                    /\ DOMAIN hist.v_once.rows = DOMAIN hist.v_in.rows
                    /\ \A i \in DOMAIN hist.v_in.rows :
                          hist.v_once.rows[i] =
                              [hist.v_in.rows[i] EXCEPT !.geom.srs = EPSG_6539]
              /\ pc = "v:twice" => parcels = hist.v_once
        /\ pc = "v:raised" => hist.v_in.crs = NoCRS
        /\ pc = "v:once" => ENABLED ValidateTwice

C9_Witness ==
    /\ pc = "v:twice"
    /\ Clean(hist.v_in)
    /\ hist.v_in.rows # <<>>
    /\ is_geographic(hist.v_in.crs)
    /\ parcels # hist.v_in

\* C10: no stage creates or duplicates a record: at every stage the working
\* collection holds each loaded parcel at most once and no more records
\* than the stage before, so no parcel is written twice.
C10_NoRecordCreated ==
    pc \in {"Loaded", "Validated", "AreaAdded", "AreaFiltered", "LandUseFiltered",
            "SkippedDistance", "DistanceFiltered", "Written"} =>
        /\ NoDuplicateIds(parcels.rows)
        /\ Ids(parcels.rows) \subseteq Ids(hist.loaded.rows)
        /\ Len(parcels.rows) <= Len(hist.loaded.rows)
        /\ pc = "Written" => NoDuplicateIds(out.gdf.rows)

====
